---- MODULE Spec2Model ----
(***************************************************************************)
(* Model of the two page scripts of the repository:                        *)
(*   - js/reset-password.js  (password reset page)                         *)
(*   - the email verification page script (unnamed/part_000)               *)
(* Each event handler of the scripts runs to completion on the single      *)
(* browser event loop and is one action of the model.  The identity        *)
(* provider SDK is an external collaborator: its synchronous calls may     *)
(* throw and its promises resolve or reject at any later time.             *)
(***************************************************************************)
EXTENDS Integers, Sequences, FiniteSets, TLC

(***************************************************************************)
(* Bounds of the model.                                                    *)
(***************************************************************************)
\* longest run of blanks, short of the minimum length, typed as a password
MaxBlank == 1
\* how many times returnToApp is invoked in one page load
MaxReturns == 2

(***************************************************************************)
(* Program constants.                                                      *)
(***************************************************************************)
MinPasswordLength == 8

\* URLSearchParams.get answers null for an absent parameter
Null == "<null>"

DeepLink == "lightningmealplans://verify-email-complete"

ResettingLabel == "Resetting..."

CompleteLabel == "Password Reset Complete"

\* label of the submit button in the page markup (not in the scripts)
InitialLabel == "Reset Password"

ResetSuccessMessage == "Password reset successful! You can now sign in with your new password."

SdkLoadMessage == "Failed to load Firebase SDK. Please refresh the page and try again."

GenericResetMessage == "An error occurred. Please try again."

Controls == {"new-password", "confirm-password", "submit"}

Fields == {"new-password", "confirm-password"}

Panels == {"loading", "success", "error"}

(***************************************************************************)
(* Inputs: URL parameters, typed passwords, provider errors.               *)
(***************************************************************************)
Rep(c, n) == [i \in 1..n |-> c]

\* values a user types in a password field: nothing, blanks only (a few, or
\* as many as the minimum length), letters one short of the minimum, letters
\* of the minimum length, and the short run with a leading blank
PasswordInputs ==
  {Rep(" ", i) : i \in 0..MaxBlank}
  \cup {Rep(" ", MinPasswordLength),
        Rep("a", MinPasswordLength - 1),
        Rep("a", MinPasswordLength),
        <<" ">> \o Rep("a", MinPasswordLength - 1)}

UrlParameterSets ==
  [oobCode : {Null, "", "CODE"},
   apiKey  : {Null, "KEY"},
   mode    : {Null, "verifyEmail", "resetPassword"}]

RecognizedResetCodes ==
  {"auth/expired-action-code", "auth/invalid-action-code", "auth/user-disabled",
   "auth/user-not-found", "auth/weak-password", "auth/network-request-failed"}

\* objects a provider call rejects with (or a synchronous provider call throws)
ProviderErrors ==
  [code : RecognizedResetCodes, message : {"Firebase: Error."}]
  \cup [code : {"auth/internal-error"}, message : {"", "Firebase: Error."}]

(***************************************************************************)
(* Pure functions of js/reset-password.js.                                 *)
(***************************************************************************)
\* JavaScript truthiness of a string-or-null value: !v
Falsy(v) == v = Null \/ v = ""

RECURSIVE TrimStart(_)
TrimStart(s) ==
  IF s # <<>> /\ Head(s) = " " THEN TrimStart(Tail(s)) ELSE s

RECURSIVE TrimEnd(_)
TrimEnd(s) ==
  IF s # <<>> /\ s[Len(s)] = " " THEN TrimEnd(SubSeq(s, 1, Len(s) - 1)) ELSE s

\* String.prototype.trim
Trim(s) == TrimEnd(TrimStart(s))

RECURSIVE Join(_, _)
\* Array.prototype.join
Join(msgs, sep) ==
  IF msgs = <<>> THEN ""
  ELSE IF Len(msgs) = 1 THEN msgs[1]
  ELSE msgs[1] \o sep \o Join(Tail(msgs), sep)

validatePasswords_NoLengthRule(newPassword, confirmPassword) ==
  LET e1 == IF newPassword = <<>> \/ Trim(newPassword) = <<>>
            THEN <<"Password cannot be empty.">> ELSE <<>>
      e2 == IF confirmPassword = <<>> \/ Trim(confirmPassword) = <<>>
            THEN <<"Please confirm your password.">> ELSE <<>>
      e4 == IF newPassword # <<>> /\ confirmPassword # <<>>
               /\ newPassword # confirmPassword
            THEN <<"Passwords do not match. Please try again.">> ELSE <<>>
      errors == e1 \o e2 \o e4
  IN  [isValid |-> Len(errors) = 0, errors |-> errors]

validatePasswords(newPassword, confirmPassword) ==
  LET e1 == IF newPassword = <<>> \/ Trim(newPassword) = <<>>
            THEN <<"Password cannot be empty.">> ELSE <<>>
      e2 == IF confirmPassword = <<>> \/ Trim(confirmPassword) = <<>>
            THEN <<"Please confirm your password.">> ELSE <<>>
      e3 == IF newPassword # <<>> /\ Len(newPassword) < MinPasswordLength
            THEN <<"Password must be at least 8 characters long.">> ELSE <<>>
      e4 == IF newPassword # <<>> /\ confirmPassword # <<>>
               /\ newPassword # confirmPassword
            THEN <<"Passwords do not match. Please try again.">> ELSE <<>>
      errors == e1 \o e2 \o e3 \o e4
  IN  [isValid |-> Len(errors) = 0, errors |-> errors]

\* the status banner after displayMessage(message, isError)
displayMessage(message, isError) ==
  [className   |-> IF isError THEN "alert alert-error" ELSE "alert alert-success",
   textContent |-> message,
   hidden      |-> FALSE]

\* the status banner after hideMessage()
hideMessage(banner) == [banner EXCEPT !.hidden = TRUE]

getFirebaseErrorMessage_NoWeakPassword(error) ==
  CASE error.code = "auth/expired-action-code" ->
         "This password reset link has expired. Please request a new one."
    [] error.code = "auth/invalid-action-code" ->
         "This password reset link is invalid or has already been used. Please request a new one."
    [] error.code = "auth/user-disabled" ->
         "This account has been disabled. Please contact support."
    [] error.code = "auth/user-not-found" ->
         "No account found with this email. Please check and try again."
    [] error.code = "auth/network-request-failed" ->
         "Unable to connect. Please check your internet connection and try again."
    [] OTHER ->
         IF error.message # "" THEN error.message ELSE GenericResetMessage

getFirebaseErrorMessage(error) ==
  CASE error.code = "auth/expired-action-code" ->
         "This password reset link has expired. Please request a new one."
    [] error.code = "auth/invalid-action-code" ->
         "This password reset link is invalid or has already been used. Please request a new one."
    [] error.code = "auth/user-disabled" ->
         "This account has been disabled. Please contact support."
    [] error.code = "auth/user-not-found" ->
         "No account found with this email. Please check and try again."
    [] error.code = "auth/weak-password" ->
         "Password is too weak. Please choose a stronger password."
    [] error.code = "auth/network-request-failed" ->
         "Unable to connect. Please check your internet connection and try again."
    [] OTHER ->
         IF error.message # "" THEN error.message ELSE GenericResetMessage

\* first failing parameter check of initializePasswordReset, "" when all pass
ResetParameterError(params) ==
  IF Falsy(params.oobCode) THEN "Invalid password reset link. Missing verification code."
  ELSE IF Falsy(params.apiKey) THEN "Invalid password reset link. Missing API key."
  ELSE IF params.mode # "resetPassword" THEN "Invalid password reset link. Incorrect mode."
  ELSE ""

\* inputs.forEach(input => input.disabled = true)
DisableForm(d) == [c \in Controls |-> TRUE]

DisableSubmit_Skip(d) == d

\* submitButton.disabled = true
DisableSubmit(d) == [d EXCEPT !["submit"] = TRUE]

EnableSubmit_Skip(d) == d

\* submitButton.disabled = false
EnableSubmit(d) == [d EXCEPT !["submit"] = FALSE]

(***************************************************************************)
(* Pure functions of the email verification script.                        *)
(***************************************************************************)
showLoading_KeepOthers(a) == [a EXCEPT !["loading"] = TRUE]

showLoading(a) == [p \in Panels |-> p = "loading"]

showSuccess_KeepLoading(a) == [a EXCEPT !["success"] = TRUE, !["error"] = FALSE]

showSuccess(a) == [p \in Panels |-> p = "success"]

showErrorPanels_KeepOthers(a) == [a EXCEPT !["error"] = TRUE]

\* the panel flags after showError
showErrorPanels(a) == [p \in Panels |-> p = "error"]

showErrorDetails_Unset(details, errorCode) == details

\* the error-details block after showError(message, errorCode)
showErrorDetails(details, errorCode) ==
  IF Falsy(errorCode) THEN details
  ELSE [codeText |-> "Error Code: " \o errorCode, shown |-> TRUE]

VerifyParameterError_KeyFirst(params) ==
  IF Falsy(params.apiKey) THEN "Invalid verification link. Missing API key."
  ELSE IF Falsy(params.oobCode) THEN "Invalid verification link. Missing verification code."
  ELSE IF params.mode # "verifyEmail"
       THEN "Invalid verification link. This link is not for email verification."
  ELSE ""

\* first failing parameter check of initializeEmailVerification, "" when all pass
VerifyParameterError(params) ==
  IF Falsy(params.oobCode) THEN "Invalid verification link. Missing verification code."
  ELSE IF Falsy(params.apiKey) THEN "Invalid verification link. Missing API key."
  ELSE IF params.mode # "verifyEmail"
       THEN "Invalid verification link. This link is not for email verification."
  ELSE ""

\* the message handleVerificationError passes to showError
VerificationErrorMessage(error) ==
  "Verification failed. " \o
  (CASE error.code = "auth/expired-action-code" ->
          "This link has expired. Please request a new verification email from the app."
     [] error.code = "auth/invalid-action-code" ->
          "This link is invalid or has already been used."
     [] error.code = "auth/user-disabled" ->
          "This account has been disabled. Please contact support."
     [] error.code = "auth/user-not-found" ->
          "User account not found."
     [] OTHER ->
          "Please try again or request a new verification email from the app.")

(***************************************************************************)
(* State.                                                                  *)
(***************************************************************************)
VARIABLES
  page,            \* which of the two pages this load is: "reset" or "verify"
  sdkLoaded,       \* typeof firebase !== 'undefined'
  search,          \* the query parameters of window.location
  pc,              \* "loading" until DOMContentLoaded has been handled, then "ready"
  calls,           \* provider operations invoked so far in this page load
  uncaught,        \* an exception has escaped an event handler
  status,          \* reset page: the #status-message banner
  disabled,        \* reset page: the disabled flag of each form control
  submitText,      \* reset page: textContent of the submit button
  value,           \* reset page: value of each password field
  handlerAttached, \* reset page: the submit listener is attached
  phaseA,          \* reset page: state of the verifyPasswordResetCode pre-check
  pendingConfirm,  \* reset page: confirmPasswordReset calls not yet settled
  lastConfirm,     \* reset page: how the latest settled confirm call ended
  active,          \* verify page: the "active" class of each panel
  errorMessage,    \* verify page: textContent of #error-message
  errorDetails,    \* verify page: #error-code text and #error-details display
  applyState,      \* verify page: state of the applyActionCode call
  location,        \* verify page: window.location.href once navigated, else Null
  timers,          \* verify page: fallback timers armed and not yet fired
  alerts,          \* verify page: fallback alerts shown
  applied,         \* verify page: the codes passed to applyActionCode, in order
  lastShow,        \* verify page: the show operation called last, else "none"
  returns          \* verify page: invocations of returnToApp

common == <<page, sdkLoaded, search, pc, calls, uncaught>>

resetVars ==
  <<status, disabled, submitText, value, handlerAttached, phaseA, pendingConfirm,
    lastConfirm>>

verifyVars ==
  <<active, errorMessage, errorDetails, applyState, location, timers, alerts,
    applied, lastShow, returns>>

vars == <<common, resetVars, verifyVars>>

\* the reset page's DOM and script state before any script has run
ResetPageInitial ==
  /\ status = [className |-> "hidden", textContent |-> "", hidden |-> TRUE]
  /\ disabled = [c \in Controls |-> FALSE]
  /\ submitText = InitialLabel
  /\ value = [f \in Fields |-> <<>>]
  /\ handlerAttached = FALSE
  /\ phaseA = "none"
  /\ pendingConfirm = <<>>
  /\ lastConfirm = "none"

\* the verification page's DOM and script state before any script has run,
\* apart from the panel flags
VerifyPageInitial ==
  /\ errorMessage = ""
  /\ errorDetails = [codeText |-> "", shown |-> FALSE]
  /\ applyState = "none"
  /\ location = Null
  /\ timers = 0
  /\ alerts = 0
  /\ applied = <<>>
  /\ lastShow = "none"
  /\ returns = 0

Init ==
  /\ page \in {"reset", "verify"}
  /\ sdkLoaded \in BOOLEAN
  /\ search \in UrlParameterSets
  /\ pc = "loading"
  /\ calls = {}
  /\ uncaught = FALSE
  /\ ResetPageInitial
  /\ VerifyPageInitial
  \* the panel markup is not part of the scripts: any flags on the verify page
  /\ IF page = "verify" THEN active \in [Panels -> BOOLEAN]
     ELSE active = [p \in Panels |-> p = "loading"]

getUrlParameters == search

(***************************************************************************)
(* Password reset page.                                                    *)
(***************************************************************************)
\* the catch block of initializePasswordReset
ResetCodeCheckFailed(error) ==
  /\ status' = displayMessage(getFirebaseErrorMessage(error), TRUE)
  /\ disabled' = DisableForm(disabled)

\* initializePasswordReset up to its first await (or to its end)
initializePasswordReset ==
  LET params == getUrlParameters IN
  IF ResetParameterError(params) # ""
  THEN /\ status' = displayMessage(ResetParameterError(params), TRUE)
       /\ UNCHANGED <<disabled, phaseA, calls>>
  ELSE \/ \E error \in ProviderErrors :      \* firebase.initializeApp throws
            /\ calls' = calls \cup {"initializeApp"}
            /\ phaseA' = "threw"
            /\ ResetCodeCheckFailed(error)
       \/ \E error \in ProviderErrors :      \* firebase.auth() throws
            /\ calls' = calls \cup {"initializeApp", "auth"}
            /\ phaseA' = "threw"
            /\ ResetCodeCheckFailed(error)
       \/ /\ calls' = calls \cup {"initializeApp", "auth", "verifyPasswordResetCode"}
          /\ phaseA' = "pending"
          /\ UNCHANGED <<status, disabled>>

ResetDOMContentLoaded_NoSdkCheck ==
  /\ page = "reset"
  /\ pc = "loading"
  /\ pc' = "ready"
  /\ initializePasswordReset
  /\ handlerAttached' = TRUE
  /\ UNCHANGED <<page, sdkLoaded, search, uncaught, submitText, value,
                 pendingConfirm, lastConfirm, verifyVars>>

ResetDOMContentLoaded ==
  /\ page = "reset"
  /\ pc = "loading"
  /\ pc' = "ready"
  /\ IF ~sdkLoaded
     THEN /\ status' = displayMessage(SdkLoadMessage, TRUE)
          /\ UNCHANGED <<disabled, phaseA, calls, handlerAttached>>
     ELSE /\ initializePasswordReset
          /\ handlerAttached' = TRUE
  /\ UNCHANGED <<page, sdkLoaded, search, uncaught, submitText, value,
                 pendingConfirm, lastConfirm, verifyVars>>

\* the awaited verifyPasswordResetCode promise resolves
VerifyCodeResolved ==
  /\ phaseA = "pending"
  /\ phaseA' = "verified"
  /\ UNCHANGED <<common, status, disabled, submitText, value, handlerAttached,
                 pendingConfirm, lastConfirm, verifyVars>>

\* the awaited verifyPasswordResetCode promise rejects with error
VerifyCodeRejectedWith(error) ==
  /\ phaseA = "pending"
  /\ phaseA' = "rejected"
  /\ ResetCodeCheckFailed(error)
  /\ UNCHANGED <<common, submitText, value, handlerAttached, pendingConfirm,
                 lastConfirm, verifyVars>>

VerifyCodeRejected == \E error \in ProviderErrors : VerifyCodeRejectedWith(error)

\* the user edits a password field
TypePassword ==
  /\ page = "reset"
  /\ pc = "ready"
  /\ \E f \in Fields, v \in PasswordInputs :
       /\ ~disabled[f]
       /\ value[f] # v
       /\ value' = [value EXCEPT ![f] = v]
  /\ UNCHANGED <<common, status, disabled, submitText, handlerAttached, phaseA,
                 pendingConfirm, lastConfirm, verifyVars>>

handleFormSubmit_NoReturn ==
  LET newPassword == value["new-password"]
      confirmPassword == value["confirm-password"]
      params == getUrlParameters
      validation == validatePasswords(newPassword, confirmPassword)
  IN  /\ status' = IF ~validation.isValid
                   THEN displayMessage(Join(validation.errors, " "), TRUE)
                   ELSE hideMessage(status)
      /\ disabled' = DisableSubmit(disabled)
      /\ submitText' = ResettingLabel
      /\ calls' = calls \cup {"auth", "confirmPasswordReset"}
      /\ pendingConfirm' =
           Append(pendingConfirm,
                  [oobCode |-> params.oobCode,
                   newPassword |-> newPassword,
                   originalButtonText |-> submitText])
      /\ UNCHANGED uncaught

handleFormSubmit ==
  LET newPassword == value["new-password"]
      confirmPassword == value["confirm-password"]
      params == getUrlParameters
      validation == validatePasswords(newPassword, confirmPassword)
  IN  IF ~validation.isValid
      THEN /\ status' = displayMessage(Join(validation.errors, " "), TRUE)
           /\ UNCHANGED <<disabled, submitText, calls, pendingConfirm, uncaught>>
      ELSE /\ status' = hideMessage(status)
           /\ disabled' = DisableSubmit(disabled)
           /\ submitText' = ResettingLabel
           /\ \/ /\ calls' = calls \cup {"auth"}       \* firebase.auth() throws
                 /\ uncaught' = TRUE
                 /\ UNCHANGED pendingConfirm
              \/ /\ calls' = calls \cup {"auth", "confirmPasswordReset"}
                 /\ pendingConfirm' =
                      Append(pendingConfirm,
                             [oobCode |-> params.oobCode,
                              newPassword |-> newPassword,
                              originalButtonText |-> submitText])
                 /\ UNCHANGED uncaught

\* a submit event of the form reaches the listener: the browser dispatches
\* none while the form's submit button is disabled
FormSubmitEvent ==
  /\ handlerAttached
  /\ ~disabled["submit"]
  /\ handleFormSubmit
  /\ UNCHANGED <<page, sdkLoaded, search, pc, value, handlerAttached, phaseA,
                 lastConfirm, verifyVars>>

Without(seq, i) == SubSeq(seq, 1, i - 1) \o SubSeq(seq, i + 1, Len(seq))

ConfirmResolved_Reenable ==
  \E i \in 1..Len(pendingConfirm) :
    /\ pendingConfirm' = Without(pendingConfirm, i)
    /\ lastConfirm' = "resolved"
    /\ status' = displayMessage(ResetSuccessMessage, FALSE)
    /\ value' = [f \in Fields |-> <<>>]
    /\ submitText' = CompleteLabel
    /\ disabled' = EnableSubmit(disabled)
    /\ UNCHANGED <<common, handlerAttached, phaseA, verifyVars>>

\* the .then callback of a confirmPasswordReset call
ConfirmResolved ==
  \E i \in 1..Len(pendingConfirm) :
    /\ pendingConfirm' = Without(pendingConfirm, i)
    /\ lastConfirm' = "resolved"
    /\ status' = displayMessage(ResetSuccessMessage, FALSE)
    /\ value' = [f \in Fields |-> <<>>]
    /\ submitText' = CompleteLabel
    /\ UNCHANGED <<common, disabled, handlerAttached, phaseA, verifyVars>>

\* the .catch callback of a confirmPasswordReset call, rejected with error
ConfirmRejectedWith(error) ==
  \E i \in 1..Len(pendingConfirm) :
    /\ pendingConfirm' = Without(pendingConfirm, i)
    /\ lastConfirm' = "rejected"
    /\ status' = displayMessage(getFirebaseErrorMessage(error), TRUE)
    /\ disabled' = EnableSubmit(disabled)
    /\ submitText' = pendingConfirm[i].originalButtonText
    /\ UNCHANGED <<common, value, handlerAttached, phaseA, verifyVars>>

ConfirmRejected == \E error \in ProviderErrors : ConfirmRejectedWith(error)

(***************************************************************************)
(* Email verification page.                                                *)
(***************************************************************************)
\* showError(message, errorCode)
showError(message, errorCode) ==
  /\ active' = showErrorPanels(active)
  /\ errorMessage' = message
  /\ errorDetails' = showErrorDetails(errorDetails, errorCode)
  /\ lastShow' = "error"

\* handleVerificationError(error)
handleVerificationError(error) == showError(VerificationErrorMessage(error), error.code)

initializeEmailVerification_PassesApiKey ==
  LET params == getUrlParameters IN
  IF VerifyParameterError(params) # ""
  THEN /\ showError(VerifyParameterError(params), Null)
       /\ UNCHANGED <<applyState, calls, applied>>
  ELSE \/ \E error \in ProviderErrors :      \* firebase.initializeApp throws
            /\ calls' = calls \cup {"initializeApp"}
            /\ applyState' = "threw"
            /\ handleVerificationError(error)
            /\ UNCHANGED applied
       \/ \E error \in ProviderErrors :      \* firebase.auth() throws
            /\ calls' = calls \cup {"initializeApp", "auth"}
            /\ applyState' = "threw"
            /\ handleVerificationError(error)
            /\ UNCHANGED applied
       \/ /\ calls' = calls \cup {"initializeApp", "auth", "applyActionCode"}
          /\ applied' = Append(applied, params.apiKey)
          /\ applyState' = "pending"
          /\ UNCHANGED <<active, errorMessage, errorDetails, lastShow>>

\* initializeEmailVerification up to its first await (or to its end)
initializeEmailVerification ==
  LET params == getUrlParameters IN
  IF VerifyParameterError(params) # ""
  THEN /\ showError(VerifyParameterError(params), Null)
       /\ UNCHANGED <<applyState, calls, applied>>
  ELSE \/ \E error \in ProviderErrors :      \* firebase.initializeApp throws
            /\ calls' = calls \cup {"initializeApp"}
            /\ applyState' = "threw"
            /\ handleVerificationError(error)
            /\ UNCHANGED applied
       \/ \E error \in ProviderErrors :      \* firebase.auth() throws
            /\ calls' = calls \cup {"initializeApp", "auth"}
            /\ applyState' = "threw"
            /\ handleVerificationError(error)
            /\ UNCHANGED applied
       \/ /\ calls' = calls \cup {"initializeApp", "auth", "applyActionCode"}
          /\ applied' = Append(applied, params.oobCode)
          /\ applyState' = "pending"
          /\ UNCHANGED <<active, errorMessage, errorDetails, lastShow>>

VerifyDOMContentLoaded ==
  /\ page = "verify"
  /\ pc = "loading"
  /\ pc' = "ready"
  /\ IF ~sdkLoaded
     THEN /\ showError(SdkLoadMessage, Null)
          /\ UNCHANGED <<applyState, calls, applied>>
     ELSE initializeEmailVerification
  /\ UNCHANGED <<page, sdkLoaded, search, uncaught, resetVars, location, timers, alerts,
                 returns>>

\* the awaited applyActionCode promise resolves
ApplyActionCodeResolved ==
  /\ applyState = "pending"
  /\ applyState' = "resolved"
  /\ active' = showSuccess(active)
  /\ lastShow' = "success"
  /\ UNCHANGED <<common, resetVars, errorMessage, errorDetails, location, timers, alerts,
                 applied, returns>>

\* the awaited applyActionCode promise rejects with error
ApplyActionCodeRejectedWith(error) ==
  /\ applyState = "pending"
  /\ applyState' = "rejected"
  /\ handleVerificationError(error)
  /\ UNCHANGED <<common, resetVars, location, timers, alerts, applied, returns>>

ApplyActionCodeRejected ==
  \E error \in ProviderErrors : ApplyActionCodeRejectedWith(error)

ReturnToApp_NoTimer ==
  /\ page = "verify"
  /\ returns < MaxReturns
  /\ returns' = returns + 1
  /\ location' = DeepLink
  /\ UNCHANGED <<common, resetVars, active, errorMessage, errorDetails, applyState, alerts,
                 applied, lastShow, timers>>

\* returnToApp(): no statement of the script calls it; the page invokes it
ReturnToApp ==
  /\ page = "verify"
  /\ returns < MaxReturns
  /\ returns' = returns + 1
  /\ location' = DeepLink
  /\ timers' = timers + 1
  /\ UNCHANGED <<common, resetVars, active, errorMessage, errorDetails, applyState, alerts,
                 applied, lastShow>>

\* the setTimeout callback armed by returnToApp
FallbackAlert ==
  /\ timers > 0
  /\ timers' = timers - 1
  /\ alerts' = alerts + 1
  /\ UNCHANGED <<common, resetVars, active, errorMessage, errorDetails, applyState, location,
                 applied, lastShow, returns>>

(***************************************************************************)
(* Specification.                                                          *)
(***************************************************************************)
Next ==
  \/ ResetDOMContentLoaded
  \/ VerifyCodeResolved
  \/ VerifyCodeRejected
  \/ TypePassword
  \/ FormSubmitEvent
  \/ ConfirmResolved
  \/ ConfirmRejected
  \/ VerifyDOMContentLoaded
  \/ ApplyActionCodeResolved
  \/ ApplyActionCodeRejected
  \/ ReturnToApp
  \/ FallbackAlert

Spec == Init /\ [][Next]_vars

TypeOK ==
  /\ page \in {"reset", "verify"}
  /\ pc \in {"loading", "ready"}
  /\ phaseA \in {"none", "pending", "verified", "rejected", "threw"}
  /\ applyState \in {"none", "pending", "resolved", "rejected", "threw"}
  /\ disabled \in [Controls -> BOOLEAN]
  /\ active \in [Panels -> BOOLEAN]
  /\ timers \in 0..MaxReturns
  /\ alerts \in 0..MaxReturns
  /\ returns \in 0..MaxReturns
  /\ lastShow \in {"none"} \cup Panels
  /\ Len(applied) <= 1

(***************************************************************************)
(* The presentation controller of the verification page on its own: the    *)
(* three show operations called in any order from any panel flags.         *)
(***************************************************************************)
\* the messages the script passes to showError
ControllerMessages ==
  ({SdkLoadMessage} \cup {VerifyParameterError(params) : params \in UrlParameterSets}
     \cup {VerificationErrorMessage(error) : error \in ProviderErrors})
  \ {""}

\* the error codes the script passes to showError (none, or a provider code)
ControllerCodes == {Null} \cup {error.code : error \in ProviderErrors}

InitController ==
  /\ Init
  /\ page = "verify"
  /\ sdkLoaded
  /\ search = [oobCode |-> "CODE", apiKey |-> "KEY", mode |-> "verifyEmail"]

CallShowLoading ==
  /\ active' = showLoading(active)
  /\ lastShow' = "loading"
  /\ UNCHANGED <<common, resetVars, errorMessage, errorDetails, applyState, location,
                 timers, alerts, applied, returns>>

CallShowSuccess ==
  /\ active' = showSuccess(active)
  /\ lastShow' = "success"
  /\ UNCHANGED <<common, resetVars, errorMessage, errorDetails, applyState, location,
                 timers, alerts, applied, returns>>

CallShowError ==
  /\ \E message \in ControllerMessages, errorCode \in ControllerCodes :
       showError(message, errorCode)
  /\ UNCHANGED <<common, resetVars, applyState, location, timers, alerts, applied,
                 returns>>

NextController ==
  \/ CallShowLoading
  \/ CallShowSuccess
  \/ CallShowError

SpecController == InitController /\ [][NextController]_vars

(***************************************************************************)
(* The verification page alone, with the browser's guarantee that an armed *)
(* setTimeout callback is eventually run by the event loop.                *)
(***************************************************************************)
InitVerifyPage == Init /\ page = "verify"

NextVerifyPage ==
  \/ VerifyDOMContentLoaded
  \/ ApplyActionCodeResolved
  \/ ApplyActionCodeRejected
  \/ ReturnToApp
  \/ FallbackAlert

SpecVerifyPage == InitVerifyPage /\ [][NextVerifyPage]_vars /\ WF_vars(FallbackAlert)

(***************************************************************************)
(* Properties.                                                             *)
(***************************************************************************)
AllDisabled == \A c \in Controls : disabled[c]

\* C1: on the reset page, once verifyPasswordResetCode has been rejected,
\* every input and button of the form is disabled in every later state,
\* whatever confirmPasswordReset call was in flight at the rejection.
C1_FormStaysDisabled == phaseA = "rejected" => AllDisabled

\* provider promises not yet settled
InFlight ==
  (IF phaseA = "pending" THEN 1 ELSE 0)
  + Len(pendingConfirm)
  + (IF applyState = "pending" THEN 1 ELSE 0)

\* C2: at most one asynchronous provider call is in flight at any time of a
\* page load; verifyPasswordResetCode and confirmPasswordReset are never
\* outstanding together.
C2_OneCallInFlight == InFlight <= 1

\* C3: at most one confirmPasswordReset call is in flight at any time, and
\* while one is in flight the submit control is disabled.
C3_OneConfirmInFlight ==
  /\ Len(pendingConfirm) <= 1
  /\ pendingConfirm # <<>> => disabled["submit"]

C3_Witness ==
  /\ Len(pendingConfirm) = 1
  /\ disabled["submit"]
  /\ submitText = ResettingLabel

\* the reset page's parameter checks fail (and the script ran them)
C4_ParameterCheckFailed ==
  /\ page = "reset"
  /\ pc = "ready"
  /\ sdkLoaded
  /\ \/ search.oobCode \in {Null, ""}
     \/ search.apiKey \in {Null, ""}
     \/ search.mode # "resetPassword"

\* C4: after a failed parameter check on the reset page no provider call
\* (initializeApp, verifyPasswordResetCode, confirmPasswordReset) is
\* attempted at any later point of the page load, form submissions included.
C4_NoCallAfterParameterError ==
  C4_ParameterCheckFailed =>
    calls \cap {"initializeApp", "verifyPasswordResetCode", "confirmPasswordReset"} = {}

C5_BadParameters ==
  \/ search.oobCode \in {Null, ""}
  \/ search.apiKey \in {Null, ""}
  \/ search.mode # "verifyEmail"

C5_ExpectedMessage ==
  IF search.oobCode \in {Null, ""}
  THEN "Invalid verification link. Missing verification code."
  ELSE IF search.apiKey \in {Null, ""}
  THEN "Invalid verification link. Missing API key."
  ELSE "Invalid verification link. This link is not for email verification."

\* C5: on the verification page with a missing oobCode, a missing apiKey or a
\* mode other than "verifyEmail", no provider operation is ever called, and
\* the script's parameter check puts the page in the Error state with the
\* message of the first failing check (code, then key, then mode).
C5_VerifyParameterErrors ==
  (page = "verify" /\ C5_BadParameters) =>
    /\ calls = {}
    /\ applyState = "none"
    /\ (pc = "ready" /\ sdkLoaded) =>
         /\ active = [p \in Panels |-> p = "error"]
         /\ errorMessage = C5_ExpectedMessage
         /\ ~errorDetails.shown

C5_Witness ==
  /\ page = "verify"
  /\ pc = "ready"
  /\ sdkLoaded
  /\ search.oobCode = "CODE"
  /\ search.apiKey = Null
  /\ search.mode = "resetPassword"
  /\ errorMessage = "Invalid verification link. Missing API key."
  /\ active["error"]

SuccessOnly == active = [p \in Panels |-> p = "success"]

C7_New == value["new-password"]

C7_Confirm == value["confirm-password"]

\* the violated rules' messages under the rules as the claim states them
C7_ClaimedErrors ==
  (IF Trim(C7_New) = <<>> THEN <<"Password cannot be empty.">> ELSE <<>>)
  \o (IF Trim(C7_Confirm) = <<>> THEN <<"Please confirm your password.">> ELSE <<>>)
  \o (IF Len(C7_New) < 8
      THEN <<"Password must be at least 8 characters long.">> ELSE <<>>)
  \o (IF C7_New # C7_Confirm
      THEN <<"Passwords do not match. Please try again.">> ELSE <<>>)

\* the same with the length rule applied only to a non-empty new password and
\* the equality rule only when both values are non-empty
C7_AmendedErrors ==
  (IF Trim(C7_New) = <<>> THEN <<"Password cannot be empty.">> ELSE <<>>)
  \o (IF Trim(C7_Confirm) = <<>> THEN <<"Please confirm your password.">> ELSE <<>>)
  \o (IF Len(C7_New) \in 1..7
      THEN <<"Password must be at least 8 characters long.">> ELSE <<>>)
  \o (IF Len(C7_New) > 0 /\ Len(C7_Confirm) > 0 /\ C7_New # C7_Confirm
      THEN <<"Passwords do not match. Please try again.">> ELSE <<>>)

\* C7 as stated: a submission that fails validation displays the messages of
\* all violated rules (non-empty new, non-empty confirm, length at least 8,
\* equal values) joined by single spaces, for every pair of inputs.
C7_AllViolatedRulesShown ==
  [][(FormSubmitEvent /\ C7_ClaimedErrors # <<>>)
       => status' = displayMessage(Join(C7_ClaimedErrors, " "), TRUE)]_vars

\* C7 as amended: the displayed text is the messages, joined by single spaces
\* in rule order, of the violated rules among: new password non-empty after
\* trimming, confirm password non-empty after trimming, a non-empty new
\* password has length at least 8, two non-empty values are character-equal;
\* the submission passes validation exactly when no rule, as stated in the
\* claim or as amended, is violated.
C7_ViolatedRulesShown ==
  [][FormSubmitEvent =>
       /\ C7_AmendedErrors # <<>>
            => status' = displayMessage(Join(C7_AmendedErrors, " "), TRUE)
       /\ (C7_AmendedErrors = <<>>) <=> (C7_ClaimedErrors = <<>>)
       /\ (C7_AmendedErrors = <<>>) <=> (submitText' = ResettingLabel)]_vars

C7_Witness ==
  /\ ~status.hidden
  /\ status.textContent =
       "Please confirm your password. Password must be at least 8 characters long."
  /\ C7_New = Rep("a", 7)
  /\ C7_Confirm = <<>>

\* both values pass the four local rules
C8_InputsPass ==
  /\ Trim(value["new-password"]) # <<>>
  /\ Trim(value["confirm-password"]) # <<>>
  /\ Len(value["new-password"]) >= 8
  /\ value["new-password"] = value["confirm-password"]

\* C8: a submission that fails local validation starts no provider call and
\* leaves the submit control enabled with its label unchanged; a
\* confirmPasswordReset call is only started by a submission whose values
\* pass validation, and with the new password of that submission.
C8_InvalidSubmitHasNoEffect ==
  /\ [][(FormSubmitEvent /\ ~C8_InputsPass)
          => /\ UNCHANGED <<disabled, submitText, pendingConfirm, calls, uncaught>>
             /\ ~disabled'["submit"]]_vars
  /\ [][Len(pendingConfirm') > Len(pendingConfirm)
          => /\ C8_InputsPass
             /\ pendingConfirm'[Len(pendingConfirm')].newPassword = value["new-password"]]_vars

C8_Witness ==
  /\ handlerAttached
  /\ ~status.hidden
  /\ status.textContent = "Passwords do not match. Please try again."
  /\ ~disabled["submit"]
  /\ submitText = InitialLabel
  /\ pendingConfirm = <<>>
  /\ "confirmPasswordReset" \notin calls

\* C9: when a confirmPasswordReset call resolves the success banner is shown;
\* from then on the submit control is disabled with the completed label and
\* no further confirmPasswordReset call is started.
C9_NoSubmitAfterSuccess ==
  /\ [](lastConfirm = "resolved"
          => (disabled["submit"] /\ submitText = CompleteLabel /\ pendingConfirm = <<>>))
  /\ [][ConfirmResolved => status' = displayMessage(ResetSuccessMessage, FALSE)]_vars
  /\ [][lastConfirm = "resolved"
          => (lastConfirm' = "resolved" /\ UNCHANGED <<pendingConfirm, calls>>)]_vars

C9_Witness ==
  /\ lastConfirm = "resolved"
  /\ status = displayMessage(ResetSuccessMessage, FALSE)
  /\ disabled["submit"]
  /\ value = [f \in Fields |-> <<>>]

\* C10: when a confirmPasswordReset call is rejected the mapped message of the
\* rejection is shown as an error and the submit control is enabled again
\* with the label of page load; an enabled submit control never carries the
\* in-progress label.
C10_RetryAfterRejection ==
  /\ [][Len(pendingConfirm') < Len(pendingConfirm)
          => \A error \in ProviderErrors :
               ConfirmRejectedWith(error)
                 => /\ status' = displayMessage(getFirebaseErrorMessage(error), TRUE)
                    /\ ~disabled'["submit"]
                    /\ submitText' = InitialLabel]_vars
  /\ [](~disabled["submit"] => submitText = InitialLabel)

\* a second confirmPasswordReset call in flight after a first was rejected
C10_Witness ==
  /\ lastConfirm = "rejected"
  /\ Len(pendingConfirm) = 1
  /\ pendingConfirm[1].originalButtonText = InitialLabel

\* a load of the verification page with the SDK and all three parameters good
C11_GoodLoad ==
  /\ page = "verify"
  /\ pc = "ready"
  /\ sdkLoaded
  /\ search.oobCode \notin {Null, ""}
  /\ search.apiKey \notin {Null, ""}
  /\ search.mode = "verifyEmail"

\* C11 as stated: with a non-empty oobCode and apiKey, mode "verifyEmail" and
\* the SDK loaded, applyActionCode is invoked exactly once per page load,
\* with the oobCode of the URL.
C11_AppliedExactlyOnce == C11_GoodLoad => applied = <<search.oobCode>>

\* C11 as amended: applyActionCode is never invoked a second time; on a good
\* load it is invoked exactly once, with the oobCode of the URL, unless
\* initializeApp or auth() throws first, and then it is not invoked at all.
C11_AppliedOnceUnlessThrow ==
  /\ [](Len(applied) <= 1)
  /\ [](C11_GoodLoad =>
          IF applyState = "threw" THEN applied = <<>> ELSE applied = <<search.oobCode>>)
  /\ [][pc = "ready" => applied' = applied]_vars

C11_Witness ==
  /\ C11_GoodLoad
  /\ applyState = "resolved"
  /\ applied = <<"CODE">>

\* the message table of the reset page for the six recognized codes
C12_Recognized(code) ==
  CASE code = "auth/expired-action-code" ->
         "This password reset link has expired. Please request a new one."
    [] code = "auth/invalid-action-code" ->
         "This password reset link is invalid or has already been used. Please request a new one."
    [] code = "auth/user-disabled" ->
         "This account has been disabled. Please contact support."
    [] code = "auth/user-not-found" ->
         "No account found with this email. Please check and try again."
    [] code = "auth/weak-password" ->
         "Password is too weak. Please choose a stronger password."
    [] code = "auth/network-request-failed" ->
         "Unable to connect. Please check your internet connection and try again."

C12_Codes ==
  {"auth/expired-action-code", "auth/invalid-action-code", "auth/user-disabled",
   "auth/user-not-found", "auth/weak-password", "auth/network-request-failed"}

C12_ClaimedMessage(error) ==
  IF error.code \in C12_Codes THEN C12_Recognized(error.code)
  ELSE "An error occurred. Please try again."

C12_AmendedMessage(error) ==
  IF error.code \in C12_Codes THEN C12_Recognized(error.code)
  ELSE IF error.message # "" THEN error.message
  ELSE "An error occurred. Please try again."

\* a provider promise of the reset page settles in this step
C12_Settles == phaseA' # phaseA \/ Len(pendingConfirm') < Len(pendingConfirm)

\* C12 as stated: a rejection with one of the six recognized codes displays
\* exactly the mapped message, and a rejection with any other code displays
\* the generic fallback message, whatever else the rejection carries.
C12_GenericFallback ==
  [][C12_Settles =>
       \A error \in ProviderErrors :
         (ConfirmRejectedWith(error) \/ VerifyCodeRejectedWith(error))
           => status' = displayMessage(C12_ClaimedMessage(error), TRUE)]_vars

\* C12 as amended: a rejection with one of the six recognized codes displays
\* exactly the mapped message whatever its other fields; a rejection with any
\* other code displays its own message when that is non-empty, and the
\* generic fallback message only otherwise.
C12_MessageFallback ==
  [][C12_Settles =>
       \A error \in ProviderErrors :
         (ConfirmRejectedWith(error) \/ VerifyCodeRejectedWith(error))
           => status' = displayMessage(C12_AmendedMessage(error), TRUE)]_vars

C12_Witness ==
  /\ lastConfirm = "rejected"
  /\ status = displayMessage("Password is too weak. Please choose a stronger password.", TRUE)

ErrorOnly == active = [p \in Panels |-> p = "error"]

\* the message of the verification page for a rejection with the given code
C13_ExpectedMessage(code) ==
  IF code = "auth/expired-action-code"
  THEN "Verification failed. This link has expired. Please request a new verification email from the app."
  ELSE IF code = "auth/invalid-action-code"
  THEN "Verification failed. This link is invalid or has already been used."
  ELSE IF code = "auth/user-disabled"
  THEN "Verification failed. This account has been disabled. Please contact support."
  ELSE IF code = "auth/user-not-found"
  THEN "Verification failed. User account not found."
  ELSE "Verification failed. Please try again or request a new verification email from the app."

\* C13: when applyActionCode is rejected the page reaches the Error state
\* with the message mapped from the rejection's code (four recognized codes,
\* the generic text for every other code), and the error-code field carries
\* the raw code of that rejection.
C13_RejectionShown ==
  /\ [][(applyState = "pending" /\ applyState' = "rejected") =>
          \A error \in ProviderErrors :
            ApplyActionCodeRejectedWith(error)
              => /\ ErrorOnly'
                 /\ errorMessage' = C13_ExpectedMessage(error.code)
                 /\ errorDetails' =
                      [codeText |-> "Error Code: " \o error.code, shown |-> TRUE]]_vars
  /\ [](applyState = "rejected" => (ErrorOnly /\ errorDetails.shown))

C13_Witness ==
  /\ applyState = "rejected"
  /\ ErrorOnly
  /\ errorMessage =
       "Verification failed. This link has expired. Please request a new verification email from the app."
  /\ errorDetails = [codeText |-> "Error Code: auth/expired-action-code", shown |-> TRUE]

\* C14: every failure of a provider operation (a rejected promise, a throw of
\* initializeApp or auth()) is caught and displayed as an error; no failure
\* escapes an event handler uncaught.
C14_NoUncaughtFailure == ~uncaught

\* C15: when the provider SDK is not loaded at page-ready time the page shows
\* the generic SDK-load error and nothing else runs: no parameter message, no
\* provider call, and on the reset page no submit listener, so that no later
\* event starts a provider call.
C15_SdkMissingShortCircuits ==
  (~sdkLoaded /\ pc = "ready") =>
    /\ calls = {}
    /\ ~handlerAttached
    /\ phaseA = "none"
    /\ pendingConfirm = <<>>
    /\ applyState = "none"
    /\ applied = <<>>
    /\ ~uncaught
    /\ page = "reset" => status = displayMessage(SdkLoadMessage, TRUE)
    /\ page = "verify" => (ErrorOnly /\ errorMessage = SdkLoadMessage /\ ~errorDetails.shown)

\* the SDK is missing, the code is missing too, and the user has filled the form
C15_Witness ==
  /\ ~sdkLoaded
  /\ pc = "ready"
  /\ page = "reset"
  /\ search.oobCode = Null
  /\ status.textContent = SdkLoadMessage
  /\ value = [f \in Fields |-> Rep("a", MinPasswordLength)]

\* C16: after any sequence of calls to showLoading, showSuccess and showError
\* from any panel flags, exactly one panel is active and it is the panel of
\* the last call; calling the operation called last once more leaves the
\* panel flags as they are.
C16_ExactlyOnePanel ==
  /\ [](lastShow # "none" =>
          /\ active = [p \in Panels |-> p = lastShow]
          /\ Cardinality({p \in Panels : active[p]}) = 1)
  /\ [][(lastShow # "none" /\ lastShow' = lastShow) => active' = active]_vars

\* showLoading called after an earlier showError with a code
C16_Witness ==
  /\ lastShow = "loading"
  /\ active = [p \in Panels |-> p = "loading"]
  /\ errorMessage = SdkLoadMessage
  /\ errorDetails.shown

\* a step that starts a confirmPasswordReset call
ConfirmStarted == Len(pendingConfirm') > Len(pendingConfirm)

\* C17: on the reset page, once verifyPasswordResetCode has been rejected no
\* confirmPasswordReset call is started for the rest of the page load,
\* whatever submissions were made before the rejection.
C17_NoConfirmAfterRejection == [][phaseA = "rejected" => ~ConfirmStarted]_vars

\* C18: on the reset page a confirmPasswordReset call is started only when
\* verifyPasswordResetCode of this page load has already resolved; a
\* submission made while the pre-check is pending starts no call.
C18_ConfirmOnlyAfterVerified == [][ConfirmStarted => phaseA = "verified"]_vars

\* C19: on the verification page the script's presentation transitions are
\* one-directional: once it has shown Success or Error the panel flags never
\* change again (no return to Loading, no change to the other terminal
\* panel), and whenever the script has activated a panel that panel is the
\* only active one.
C19_OneDirectional ==
  /\ [](lastShow # "none" => active = [p \in Panels |-> p = lastShow])
  /\ [](lastShow # "loading")
  /\ [][(lastShow \in {"success", "error"}) =>
          (lastShow' = lastShow /\ active' = active /\ ~active'["loading"])]_vars

\* Error reached through a throw of the provider's initialisation
C19_Witness ==
  /\ page = "verify"
  /\ applyState = "threw"
  /\ lastShow = "error"
  /\ ErrorOnly
  /\ returns > 0

\* C20: every invocation of returnToApp navigates to the deep link and arms
\* exactly one timer; each armed timer fires the fallback alert exactly once,
\* whatever the state of the applyActionCode call, and every invocation is
\* eventually followed by its alert.
C20_AlertAfterEveryReturn ==
  /\ [](returns = timers + alerts)
  /\ [](returns > 0 => location = DeepLink)
  /\ [](timers > 0 => ENABLED FallbackAlert)
  /\ [][returns' # returns =>
          (returns' = returns + 1 /\ location' = DeepLink
             /\ timers' = timers + 1 /\ alerts' = alerts)]_vars
  /\ [][alerts' # alerts =>
          (alerts' = alerts + 1 /\ timers' = timers - 1 /\ returns' = returns)]_vars
  /\ \A n \in 1..MaxReturns : (returns >= n) ~> (alerts >= n)

\* every alert has fired while applyActionCode is still pending
C20_Witness ==
  /\ returns = MaxReturns
  /\ alerts = MaxReturns
  /\ timers = 0
  /\ location = DeepLink
  /\ applyState = "pending"

====
